---- MODULE Spec2Model ----
(***************************************************************************)
(* A model of the circuit composer: the name allocator and the             *)
(* Concatenator of src/src/concatenator.rs, and the truth-table            *)
(* synthesizer of src/src/bitmap.rs.                                       *)
(*                                                                         *)
(* Names (Rust Strings) are sequences of one-character strings, so that    *)
(* trimming a suffix and formatting "{hint}_{counter}" are computed.       *)
(* Gates are tuples <<tag, operands...>>; two gates are the same gate      *)
(* exactly when they are equal as values (structural interning), and a     *)
(* gate's id is the gate itself.                                           *)
(***************************************************************************)
EXTENDS Integers, Sequences, FiniteSets, TLC

VARIABLES
    na,        \* NameAllocator scenario: the allocator under test
    na_seed,   \* NameAllocator scenario: the names it was constructed with
    na_log,    \* NameAllocator scenario: the calls so far, <<hint, returned name>>
    circuits,  \* Concatenator scenario: the chain of circuits handed in
    pc,        \* position of the running scenario
    conc,      \* Concatenator scenario: the Concatenator's fields
    pending,   \* Concatenator::run: the collected (circuit_index, gate, name)
    result,    \* Concatenator::run: the (gate, name) pairs produced so far
    circuit_out, \* the concatenated circuit, or NoCircuit before run has returned
    table,     \* bitmap scenario: the truth table handed in
    bm,        \* bitmap scenario: validation result and circuit
    tokens,    \* permutation scenario: the tokens handed in
    pm,        \* permutation scenario: validation result or circuit
    rep        \* replicator scenario: arguments and results

vars == <<na, na_seed, na_log, circuits, pc, conc, pending, result, circuit_out, table, bm,
         tokens, pm, rep>>

Range(s) == {s[k] : k \in 1..Len(s)}

(***************************************************************************)
(* Names                                                                   *)
(***************************************************************************)
Digits == <<"0", "1", "2", "3", "4", "5", "6", "7", "8", "9">>

\* c.is_ascii_digit() || c == '_'
IsSuffixChar(c) == c \in Range(Digits) \cup {"_"}

\* str::trim_end_matches with the predicate above
RECURSIVE trim_end_matches(_)
trim_end_matches(s) ==
    IF s = <<>> THEN s
    ELSE IF IsSuffixChar(s[Len(s)]) THEN trim_end_matches(SubSeq(s, 1, Len(s) - 1))
    ELSE s

\* Display of a usize, in decimal
RECURSIVE usize_to_string(_)
usize_to_string(n) ==
    IF n < 10 THEN <<Digits[n + 1]>>
    ELSE usize_to_string(n \div 10) \o <<Digits[(n % 10) + 1]>>

\* format!("{name_hint}_{counter}")
FormatName(name_hint, counter) == name_hint \o <<"_">> \o usize_to_string(counter)

(***************************************************************************)
(* NameAllocator                                                           *)
(***************************************************************************)
\* NameAllocator::new and Default
NameAllocator_new(used_names) == [used_names |-> used_names, counters |-> <<>>]

RECURSIVE allocate_loop_unreserved(_, _, _)
allocate_loop_unreserved(used_names, name_hint, counter) ==
    LET name == FormatName(name_hint, counter) IN
    IF name \notin used_names
    THEN [name |-> name, counter |-> counter + 1, used_names |-> used_names]
    ELSE allocate_loop_unreserved(used_names, name_hint, counter + 1)

\* The loop of allocate_name: counter is the stem's counter on entry.
RECURSIVE allocate_loop(_, _, _)
allocate_loop(used_names, name_hint, counter) ==
    LET name == FormatName(name_hint, counter) IN
    IF name \notin used_names
    THEN [name |-> name, counter |-> counter + 1, used_names |-> used_names \cup {name}]
    ELSE allocate_loop(used_names, name_hint, counter + 1)

CounterOf_zero(counters, stem) == IF stem \in DOMAIN counters THEN counters[stem] ELSE 0

\* counters.entry(stem).or_insert(1)
CounterOf(counters, stem) == IF stem \in DOMAIN counters THEN counters[stem] ELSE 1

\* The key of the retry counter: the hint without its digit/underscore suffix.
StemOf(name_hint) == trim_end_matches(name_hint)

\* NameAllocator::allocate_name; returns the allocator afterwards and the name.
allocate_name(a, name_hint) ==
    IF name_hint \notin a.used_names
    THEN [alloc |-> [a EXCEPT !.used_names = @ \cup {name_hint}], name |-> name_hint]
    ELSE LET stem == StemOf(name_hint)
             r == allocate_loop(a.used_names, name_hint, CounterOf(a.counters, stem))
         IN  [alloc |-> [used_names |-> r.used_names,
                         counters |-> (stem :> r.counter) @@ a.counters],
              name |-> r.name]

(***************************************************************************)
(* Gates and circuits (the boolean_circuit library, as the code uses it)   *)
(***************************************************************************)
Var(name) == <<"var", name>>
Const(value) == <<"const", value>>
Not(inner) == <<"not", inner>>
And(left, right) == <<"and", left, right>>
Or(left, right) == <<"or", left, right>>
Xor(left, right) == <<"xor", left, right>>

\* Gate::post_visit_iter: every distinct node once, operands before the gate.
RECURSIVE post_visit(_, _)
post_visit(gate, acc) ==
    IF gate \in Range(acc) THEN acc
    ELSE IF gate[1] \in {"var", "const"} THEN Append(acc, gate)
    ELSE IF gate[1] = "not" THEN Append(post_visit(gate[2], acc), gate)
    ELSE Append(post_visit(gate[3], post_visit(gate[2], acc)), gate)

post_visit_iter(gate) == post_visit(gate, <<>>)

\* boolean_circuit::evaluate of one gate under an assignment of its variables
RECURSIVE Eval(_, _)
Eval(gate, asg) ==
    CASE gate[1] = "var" -> asg[gate[2]]
      [] gate[1] = "const" -> gate[2]
      [] gate[1] = "not" -> ~Eval(gate[2], asg)
      [] gate[1] = "and" -> Eval(gate[2], asg) /\ Eval(gate[3], asg)
      [] gate[1] = "or" -> Eval(gate[2], asg) \/ Eval(gate[3], asg)
      [] gate[1] = "xor" -> Eval(gate[2], asg) # Eval(gate[3], asg)

\* A circuit: its ordered input names and its ordered (gate, name) outputs.
Circuit(inputs, outputs) == [inputs |-> inputs, outputs |-> outputs]
EmptyCircuit == Circuit(<<>>, <<>>)
NoCircuit == [none |-> TRUE]

input_names(circuit) == circuit.inputs
named_outputs(circuit) == circuit.outputs
\* Circuit::outputs: the output gates
outputs(circuit) == [k \in 1..Len(circuit.outputs) |-> circuit.outputs[k][1]]

(***************************************************************************)
(* Concatenator                                                            *)
(***************************************************************************)
\* The value a panicking lookup stands for; no gate equals it.
Poison == <<"poison">>

NoConcatenator ==
    [input_index_by_name |-> <<>>, input_name_substitutions |-> <<>>,
     gate_substitutions |-> <<>>, input_name_allocator |-> NameAllocator_new({}),
     output_name_allocator |-> NameAllocator_new({}),
     new_input_name_sequence |-> <<>>, panicked |-> FALSE, inserts |-> <<>>]

\* One circuit's map from input name to (0-based) index; a later index wins.
IndexByName(inputs) ==
    [name \in Range(inputs) |->
        (CHOOSE k \in 1..Len(inputs) :
            inputs[k] = name /\ \A j \in (k + 1)..Len(inputs) : inputs[j] # name) - 1]

Concatenator_fields_unseeded(cs) ==
    IF cs = <<>> THEN [NoConcatenator EXCEPT !.panicked = TRUE]
    ELSE [input_index_by_name |-> [k \in 1..Len(cs) |-> IndexByName(input_names(cs[k]))],
          input_name_substitutions |-> <<>>,
          gate_substitutions |-> <<>>,
          input_name_allocator |-> NameAllocator_new({}),
          output_name_allocator |-> NameAllocator_new({}),
          new_input_name_sequence |-> input_names(cs[1]),
          panicked |-> FALSE,
          inserts |-> <<>>]

\* Concatenator::new after its assertion; first().unwrap() panics as well
\* when there is no first circuit.
Concatenator_fields(cs) ==
    IF cs = <<>> THEN [NoConcatenator EXCEPT !.panicked = TRUE]
    ELSE [input_index_by_name |-> [k \in 1..Len(cs) |-> IndexByName(input_names(cs[k]))],
          input_name_substitutions |-> <<>>,
          gate_substitutions |-> <<>>,
          input_name_allocator |-> NameAllocator_new(Range(input_names(cs[1]))),
          output_name_allocator |-> NameAllocator_new({}),
          new_input_name_sequence |-> input_names(cs[1]),
          panicked |-> FALSE,
          inserts |-> <<>>]

Concatenator_new_lenient(cs) ==
    IF cs = <<>> THEN NoConcatenator ELSE Concatenator_fields(cs)

\* Concatenator::new; panicked stands for the failed assertion
\* "Cannot concatenate empty circuits".
Concatenator_new(cs) ==
    IF cs = <<>> THEN [NoConcatenator EXCEPT !.panicked = TRUE]
    ELSE Concatenator_fields(cs)

\* Concatenator::sub: the substitution cached for a gate of a circuit.
sub(c, circuit_index, gate) ==
    IF <<circuit_index, gate>> \in DOMAIN c.gate_substitutions
    THEN c.gate_substitutions[<<circuit_index, gate>>]
    ELSE Poison

\* The circuit whose outputs feed the inputs of circuit circuit_index, and the
\* number of the output that feeds input number input_index.
FeederCircuit_first(circuit_index) == 0
FeederCircuit(circuit_index) == circuit_index - 1
FeederPosition_next(input_index) == input_index + 1
FeederPosition(input_index) == input_index

RECURSIVE map_gate(_, _, _)
RECURSIVE map_input(_, _, _)
RECURSIVE map_gate_nodes(_, _, _, _)

\* The match of map_gate: the substitution of one node.
substitution(c, circuit_index, g) ==
    CASE g[1] = "var" -> map_input(c, circuit_index, g[2])
      [] g[1] = "const" -> [c |-> c, gate |-> Const(g[2])]
      [] g[1] = "not" ->
            LET inner == sub(c, circuit_index, g[2]) IN
            [c |-> [c EXCEPT !.panicked = @ \/ inner = Poison], gate |-> Not(inner)]
      [] OTHER ->
            LET left == sub(c, circuit_index, g[2])
                right == sub(c, circuit_index, g[3])
            IN  [c |-> [c EXCEPT !.panicked = @ \/ left = Poison \/ right = Poison],
                 gate |-> <<g[1], left, right>>]

RECURSIVE map_gate_nodes_unmemoized(_, _, _, _)
map_gate_nodes_unmemoized(c, circuit_index, nodes, k) ==
    IF k > Len(nodes) THEN c
    ELSE LET g == nodes[k]
             r == substitution(c, circuit_index, g)
             c2 == [r.c EXCEPT
                       !.gate_substitutions = (<<circuit_index, g>> :> r.gate) @@ @,
                       !.inserts = Append(@, <<circuit_index, g>>)]
         IN  map_gate_nodes_unmemoized(c2, circuit_index, nodes, k + 1)

\* The loop of map_gate over the nodes in post-visit order, from node k on.
map_gate_nodes(c, circuit_index, nodes, k) ==
    IF k > Len(nodes) THEN c
    ELSE LET g == nodes[k] IN
         IF <<circuit_index, g>> \in DOMAIN c.gate_substitutions
         THEN map_gate_nodes(c, circuit_index, nodes, k + 1)
         ELSE LET r == substitution(c, circuit_index, g)
                  c2 == [r.c EXCEPT
                            !.gate_substitutions = (<<circuit_index, g>> :> r.gate) @@ @,
                            !.inserts = Append(@, <<circuit_index, g>>)]
              IN  map_gate_nodes(c2, circuit_index, nodes, k + 1)

\* Concatenator::map_gate; returns the Concatenator afterwards and the gate.
map_gate(c, circuit_index, gate) ==
    LET c2 == map_gate_nodes(c, circuit_index, post_visit_iter(gate), 1)
        g == sub(c2, circuit_index, gate)
    IN  [c |-> [c2 EXCEPT !.panicked = @ \/ g = Poison], gate |-> g]

\* Concatenator::map_input; returns the Concatenator afterwards and the gate.
map_input(c, circuit_index, name) ==
    IF <<circuit_index, name>> \in DOMAIN c.input_name_substitutions
    THEN [c |-> c, gate |-> c.input_name_substitutions[<<circuit_index, name>>]]
    ELSE LET r ==
                IF circuit_index = 0 THEN [c |-> c, gate |-> Var(name)]
                ELSE IF name \notin DOMAIN c.input_index_by_name[circuit_index + 1]
                THEN [c |-> [c EXCEPT !.panicked = TRUE], gate |-> Poison]
                ELSE LET input_index == c.input_index_by_name[circuit_index + 1][name]
                         feeder == outputs(circuits[FeederCircuit(circuit_index) + 1])
                         position == FeederPosition(input_index)
                     IN  IF position < Len(feeder)
                         THEN map_gate(c, FeederCircuit(circuit_index), feeder[position + 1])
                         ELSE LET a == allocate_name(c.input_name_allocator, name) IN
                              [c |-> [c EXCEPT
                                        !.input_name_allocator = a.alloc,
                                        !.new_input_name_sequence = Append(@, a.name)],
                               gate |-> Var(a.name)]
         IN  [c |-> [r.c EXCEPT !.input_name_substitutions =
                                    (<<circuit_index, name>> :> r.gate) @@ @],
              gate |-> r.gate]

allocate_new_output_name_always(c, name_hint) ==
    LET a == allocate_name(c.output_name_allocator, name_hint) IN
    [c |-> [c EXCEPT !.output_name_allocator = a.alloc], name |-> a.name]

\* Concatenator::allocate_new_output_name
allocate_new_output_name(c, name_hint) ==
    IF name_hint = <<>> THEN [c |-> c, name |-> <<>>]
    ELSE LET a == allocate_name(c.output_name_allocator, name_hint) IN
         [c |-> [c EXCEPT !.output_name_allocator = a.alloc], name |-> a.name]

next_inputs_own(c, circuit_index) ==
    Cardinality(DOMAIN c.input_index_by_name[circuit_index + 1])

\* Number of inputs of the circuit after circuit_index (0 after the last).
next_inputs(c, circuit_index) ==
    IF circuit_index + 2 \in DOMAIN c.input_index_by_name
    THEN Cardinality(DOMAIN c.input_index_by_name[circuit_index + 2])
    ELSE 0

\* named_outputs().skip(n) of one circuit, tagged with its index
KeptOutputs(cs, circuit_index, n) ==
    LET outs == named_outputs(cs[circuit_index + 1]) IN
    [k \in 1..(IF Len(outs) > n THEN Len(outs) - n ELSE 0) |->
        <<circuit_index, outs[k + n][1], outs[k + n][2]>>]

\* The first half of run: the kept outputs, circuits taken from the last to
\* circuit_index, last first.
RECURSIVE CollectFrom(_, _, _)
CollectFrom(cs, c, circuit_index) ==
    IF circuit_index < 0 THEN <<>>
    ELSE KeptOutputs(cs, circuit_index, next_inputs(c, circuit_index))
            \o CollectFrom(cs, c, circuit_index - 1)

run_collect(cs, c) == CollectFrom(cs, c, Len(cs) - 1)

\* The closure of the second half of run, for one collected output.
run_map_one(c, item) ==
    LET n == allocate_new_output_name(c, item[3])
        g == map_gate(n.c, item[1], item[2])
    IN  [c |-> g.c, output |-> <<g.gate, n.name>>]

(***************************************************************************)
(* Bitmap synthesizer                                                      *)
(***************************************************************************)
\* The width of a table entry (u64), scaled down; arithmetic on entries is
\* modulo 2^WordBits.
WordBits == 6

RECURSIVE Pow2(_)
Pow2(k) == IF k = 0 THEN 1 ELSE 2 * Pow2(k - 1)

\* 1u64 << k
Shl1(k) == Pow2(k) % Pow2(WordBits)

\* v & (1 << k) != 0
BitSet(v, k) == (v \div Pow2(k)) % 2 = 1

\* ilog2 of a positive integer
RECURSIVE ilog2(_)
ilog2(n) == IF n < 2 THEN 0 ELSE 1 + ilog2(n \div 2)

RECURSIVE MaxOf(_)
MaxOf(s) ==
    IF Len(s) = 1 THEN s[1]
    ELSE LET m == MaxOf(Tail(s)) IN IF s[1] > m THEN s[1] ELSE m

output_bits_floor(largest_output) == ilog2(largest_output)

\* The last statement of validate_inputs: the number of output bits for a
\* largest entry > 0.
output_bits_of(largest_output) ==
    LET output_bits == ilog2(largest_output) IN
    IF Shl1(output_bits) > largest_output THEN output_bits ELSE output_bits + 1

\* validate_inputs
validate_inputs(inputs) ==
    IF inputs = <<>> THEN [ok |-> TRUE, input_bits |-> 0, output_bits |-> 0]
    ELSE LET input_bits == ilog2(Len(inputs)) IN
         IF ~(input_bits < WordBits) THEN [panicked |-> TRUE]
         ELSE IF Shl1(input_bits) # Len(inputs)
         THEN [ok |-> FALSE, reported |-> Len(inputs)]
         ELSE LET largest_output == MaxOf(inputs) IN
              IF largest_output = 0
              THEN [ok |-> TRUE, input_bits |-> input_bits, output_bits |-> 0]
              ELSE [ok |-> TRUE, input_bits |-> input_bits,
                    output_bits |-> output_bits_of(largest_output)]

\* builder::reduce_conjunction and reduce_disjunction: a balanced tree, the
\* identity element for no gate
RECURSIVE Reduce(_, _, _)
Reduce(tag, identity, gates) ==
    IF gates = <<>> THEN Const(identity)
    ELSE IF Len(gates) = 1 THEN gates[1]
    ELSE LET half == (Len(gates) + 1) \div 2 IN
         <<tag, Reduce(tag, identity, SubSeq(gates, 1, half)),
                Reduce(tag, identity, SubSeq(gates, half + 1, Len(gates)))>>

reduce_conjunction(gates) == Reduce("and", TRUE, gates)
reduce_disjunction(gates) == Reduce("or", FALSE, gates)

\* format!("i{i}")
InputName(i) == <<"i">> \o usize_to_string(i)

Literal_unnegated(index, input_bit) == Var(InputName(input_bit))

\* The input gate of a row's conjunction: negated where the row index has a 0.
Literal(index, input_bit) ==
    IF BitSet(index, input_bit) THEN Var(InputName(input_bit))
    ELSE Not(Var(InputName(input_bit)))

\* The conjunction for row number index (0-based)
RowGate(index, input_bits) ==
    reduce_conjunction([k \in 1..input_bits |-> Literal(index, k - 1)])

\* The rows whose entry has the bit set, in order (0-based indices)
RECURSIVE RowsWithBit(_, _, _)
RowsWithBit(inputs, bit, from) ==
    IF from > Len(inputs) THEN <<>>
    ELSE (IF BitSet(inputs[from], bit) THEN <<from - 1>> ELSE <<>>)
            \o RowsWithBit(inputs, bit, from + 1)

OutputGate(inputs, bit, input_bits) ==
    LET rows == RowsWithBit(inputs, bit, 1) IN
    reduce_disjunction([k \in 1..Len(rows) |-> RowGate(rows[k], input_bits)])

\* The variables of some gates, in the order a post-visit meets them
RECURSIVE VariablesOf(_, _)
VariablesOf(gates, acc) ==
    IF gates = <<>> THEN acc
    ELSE LET nodes == post_visit_iter(gates[1])
             fresh == SelectSeq(nodes, LAMBDA g : g[1] = "var" /\ g[2] \notin Range(acc))
         IN  VariablesOf(Tail(gates), acc \o [k \in 1..Len(fresh) |-> fresh[k][2]])

\* Circuit::from_unnamed_outputs: the gates with empty names; the inputs
\* are the variables the gates use.
from_unnamed_outputs(gates) ==
    Circuit(VariablesOf(gates, <<>>), [k \in 1..Len(gates) |-> <<gates[k], <<>>>>])

\* build_bitmap
build_bitmap(inputs) ==
    LET v == validate_inputs(inputs) IN
    IF ~v.ok THEN [ok |-> FALSE, reported |-> v.reported]
    ELSE [ok |-> TRUE,
          circuit |-> from_unnamed_outputs(
                [k \in 1..v.output_bits |-> OutputGate(inputs, k - 1, v.input_bits)])]

(***************************************************************************)
(* Scenarios                                                               *)
(***************************************************************************)
MaxCalls == 4      \* allocate_name calls in one NameAllocator scope
MaxChain == 3      \* circuits in one concatenation
MaxTableLen == 4   \* rows of a truth table
MaxSmallEntry == 3 \* table entries are 0..MaxSmallEntry and the two below

a == <<"a">>
b == <<"b">>
cc == <<"c">>
o == <<"o">>
p == <<"p">>
o_1 == <<"o", "_", "1">>
anonymous == <<>>

\* The circuits a chain is drawn from: input order differing from name
\* order, shared sub-gates, anonymous and repeated output names, a name
\* ending in a counter suffix, circuits without inputs or outputs.
CircuitPool ==
    { Circuit(<<a, b>>, << <<And(Var(a), Var(b)), o>>, <<Xor(Var(a), Var(b)), p>> >>),
      Circuit(<<b, a>>, << <<And(Var(a), Not(Var(b))), o>> >>),
      Circuit(<<a>>, << <<Not(Var(a)), anonymous>>, <<Var(a), o>>, <<Not(Var(a)), o>> >>),
      Circuit(<<>>, << <<Const(TRUE), o>> >>),
      Circuit(<<a, b, cc>>, << <<Xor(Or(Var(a), Var(b)), Var(cc)), o_1>>,
                               <<Not(Or(Var(a), Var(b))), anonymous>> >>),
      Circuit(<<b, a>>, << <<Var(b), anonymous>>, <<Var(a), o>>,
                         <<Or(Var(a), Var(b)), anonymous>> >>),
      EmptyCircuit }

RECURSIVE SeqsUpTo(_, _)
SeqsUpTo(S, n) ==
    IF n = 0 THEN {<<>>}
    ELSE LET shorter == SeqsUpTo(S, n - 1) IN
         shorter \cup {Append(s, x) : s \in {t \in shorter : Len(t) = n - 1}, x \in S}

\* The hints of the allocator scenario: one stem with and without counter
\* suffixes, another stem, and the empty hint.
Hints == {a, <<"a", "1">>, <<"a", "_", "1">>, b, <<>>}
SeedNames == {a, <<"a", "_", "1">>, b}

IdleAllocator == NameAllocator_new({})

concVars == <<circuits, conc, pending, result, circuit_out>>
naVars == <<na, na_seed, na_log>>
bmVars == <<table, bm>>
synthVars == <<tokens, pm, rep>>
IdleSynth == tokens = <<>> /\ pm = [none |-> TRUE] /\ rep = [none |-> TRUE]

---------------------------------------------------------------------------
\* The NameAllocator scenario: a scope is constructed over some names and
\* allocate_name is called with arbitrary hints.
InitAlloc ==
    /\ pc = "alloc"
    /\ na_seed \in SUBSET SeedNames
    /\ na = NameAllocator_new(na_seed)
    /\ na_log = <<>>
    /\ circuits = <<>> /\ conc = NoConcatenator /\ pending = <<>> /\ result = <<>>
    /\ circuit_out = NoCircuit
    /\ table = <<>> /\ bm = [none |-> TRUE]
    /\ IdleSynth

Allocate(name_hint) ==
    /\ pc = "alloc"
    /\ Len(na_log) < MaxCalls
    /\ LET r == allocate_name(na, name_hint) IN
        /\ na' = r.alloc
        /\ na_log' = Append(na_log, <<name_hint, r.name>>)
    /\ UNCHANGED <<na_seed, pc, concVars, bmVars, synthVars>>

NextAlloc == \E name_hint \in Hints : Allocate(name_hint)

SpecAlloc == InitAlloc /\ [][NextAlloc]_vars

---------------------------------------------------------------------------
\* The concatenation scenario: a Concatenator is made for a chain of
\* circuits and run.
Init ==
    /\ pc = "start"
    /\ circuits \in SeqsUpTo(CircuitPool, MaxChain)
    /\ conc = NoConcatenator /\ pending = <<>> /\ result = <<>>
    /\ circuit_out = NoCircuit
    /\ na = IdleAllocator /\ na_seed = {} /\ na_log = <<>>
    /\ table = <<>> /\ bm = [none |-> TRUE]
    /\ IdleSynth

\* Concatenator::new on the chain
New ==
    /\ pc = "start"
    /\ conc' = Concatenator_new(circuits)
    /\ pc' = IF conc'.panicked THEN "panic" ELSE "collect"
    /\ UNCHANGED <<circuits, pending, result, circuit_out, naVars, bmVars, synthVars>>

\* run: the kept outputs are determined
RunCollect ==
    /\ pc = "collect"
    /\ pending' = run_collect(circuits, conc)
    /\ pc' = "map"
    /\ UNCHANGED <<circuits, conc, result, circuit_out, naVars, bmVars, synthVars>>

\* run: the next kept output gets its name and its gate
RunMapOutput ==
    /\ pc = "map"
    /\ pending # <<>>
    /\ LET r == run_map_one(conc, Head(pending)) IN
        /\ conc' = r.c
        /\ result' = Append(result, r.output)
        /\ pc' = IF r.c.panicked THEN "panic" ELSE "map"
    /\ pending' = Tail(pending)
    /\ UNCHANGED <<circuits, circuit_out, naVars, bmVars, synthVars>>

\* run returns; the result is its outputs with new_input_name_sequence()
\* as the inputs
RunReturn ==
    /\ pc = "map"
    /\ pending = <<>>
    /\ pc' = "done"
    /\ circuit_out' = Circuit(conc.new_input_name_sequence, result)
    /\ UNCHANGED <<circuits, conc, pending, result, naVars, bmVars, synthVars>>

Next == New \/ RunCollect \/ RunMapOutput \/ RunReturn

Spec == Init /\ [][Next]_vars

---------------------------------------------------------------------------
(***************************************************************************)
(* Properties of the concatenation scenario                                *)
(***************************************************************************)
Done == pc = "done"
Chain(n) == Len(circuits) = n
NumInputs(i) == Len(input_names(circuits[i + 1]))
NumOutputs(i) == Len(named_outputs(circuits[i + 1]))
PositionOf(i, name) == IndexByName(input_names(circuits[i + 1]))[name]
Assignments(names) == [Range(names) -> BOOLEAN]

\* The values circuit `later` sees at its inputs when input number j takes
\* the value of output number j of circuit `earlier` under asg.
Fed(earlier, later, asg) ==
    [name \in Range(input_names(later)) |->
        Eval(outputs(earlier)[IndexByName(input_names(later))[name] + 1], asg)]

\* C1: for a chain [C0, C1] with inputs(C1) <= outputs(C0) the result has
\* exactly the inputs of C0, in C0's order, and under every assignment of
\* them its outputs that stem from C1 (the first outputs(C1) ones) have the
\* values of C1's outputs when input j of C1 is given the value of output j
\* of C0.
C1_ComposedFunction ==
    (Done /\ Chain(2) /\ NumInputs(1) <= NumOutputs(0)) =>
        /\ input_names(circuit_out) = input_names(circuits[1])
        /\ Len(named_outputs(circuit_out)) >= NumOutputs(1)
        /\ \A asg \in Assignments(input_names(circuits[1])) :
            \A k \in 1..NumOutputs(1) :
                Eval(outputs(circuit_out)[k], asg)
                    = Eval(outputs(circuits[2])[k], Fed(circuits[1], circuits[2], asg))

C1_Witness ==
    /\ Done /\ Chain(2) /\ NumInputs(1) <= NumOutputs(0)
    /\ NumInputs(1) = 2 /\ NumInputs(0) = 2 /\ NumOutputs(1) >= 1
    /\ input_names(circuits[2]) = <<b, a>>

\* The rewriting the chain prescribes, computed from the circuits alone: a
\* variable of circuit 0 is itself, a variable of circuit i > 0 at input
\* position p is the rewriting of output p of circuit i-1, and only without
\* such an output it is what map_input recorded for it.
RECURSIVE Rewritten(_, _)
Rewritten(i, g) ==
    CASE g[1] = "var" ->
            IF i = 0 THEN g
            ELSE IF PositionOf(i, g[2]) < NumOutputs(i - 1)
            THEN Rewritten(i - 1, outputs(circuits[i])[PositionOf(i, g[2]) + 1])
            ELSE IF <<i, g[2]>> \in DOMAIN conc.input_name_substitutions
            THEN conc.input_name_substitutions[<<i, g[2]>>]
            ELSE Poison
      [] g[1] = "const" -> g
      [] g[1] = "not" -> Not(Rewritten(i, g[2]))
      [] OTHER -> <<g[1], Rewritten(i, g[2]), Rewritten(i, g[3])>>

\* The names run has added to the inputs of circuit 0.
NewInputs ==
    SubSeq(conc.new_input_name_sequence, NumInputs(0) + 1,
           Len(conc.new_input_name_sequence))

\* C2: at every moment of a run, each variable of a circuit i > 0 that has
\* been replaced is replaced by the rewritten gate of the output of circuit
\* i-1 at the variable's input position when there is such an output (by
\* position, whatever the names), and by a variable that is a new external
\* input only when there is none.
C2_PositionalWiring ==
    (circuits # <<>> /\ pc \in {"map", "done"}) =>
        /\ \A key \in DOMAIN conc.gate_substitutions :
            conc.gate_substitutions[key] = Rewritten(key[1], key[2])
        /\ \A key \in DOMAIN conc.input_name_substitutions :
            LET i == key[1]
                s == conc.input_name_substitutions[key]
            IN  i > 0 =>
                    IF PositionOf(i, key[2]) < NumOutputs(i - 1)
                    THEN LET feeder == outputs(circuits[i])[PositionOf(i, key[2]) + 1] IN
                         /\ <<i - 1, feeder>> \in DOMAIN conc.gate_substitutions
                         /\ s = conc.gate_substitutions[<<i - 1, feeder>>]
                    ELSE /\ s[1] = "var"
                         /\ s[2] \in Range(NewInputs)
                         /\ s[2] \notin Range(input_names(circuits[1]))

C2_Witness ==
    /\ Done /\ Chain(3)
    /\ \E key \in DOMAIN conc.input_name_substitutions :
        key[1] = 2 /\ PositionOf(2, key[2]) < NumOutputs(1)
    /\ \E key \in DOMAIN conc.input_name_substitutions :
        key[1] = 1 /\ PositionOf(1, key[2]) >= NumOutputs(0)
    /\ input_names(circuits[3]) = <<b, a>>

\* The outputs the chain keeps: <<circuit index, output number>>, circuits
\* from the last to the first, of circuit i the outputs after the first
\* inputs(C_(i+1)) ones.
RECURSIVE ExpectedKept(_)
ExpectedKept(i) ==
    IF i < 0 THEN <<>>
    ELSE LET skipped == IF i + 2 <= Len(circuits) THEN NumInputs(i + 1) ELSE 0
             kept == IF NumOutputs(i) > skipped THEN NumOutputs(i) - skipped ELSE 0
         IN  [k \in 1..kept |-> <<i, skipped + k>>] \o ExpectedKept(i - 1)

IsPrefix(s, t) == Len(s) <= Len(t) /\ SubSeq(t, 1, Len(s)) = s

\* C3: the outputs of the result are, in this order, all outputs of the last
\* circuit and then, for i = n-2 down to 0, the outputs of circuit i at
\* positions >= inputs(C_(i+1)), each group in the circuit's own order; no
\* other output appears.
C3_OutputOrder ==
    (Done /\ circuits # <<>>) =>
        LET expected == ExpectedKept(Len(circuits) - 1) IN
        /\ Len(named_outputs(circuit_out)) = Len(expected)
        /\ \A k \in 1..Len(expected) :
            LET source == named_outputs(circuits[expected[k][1] + 1])[expected[k][2]]
                got == named_outputs(circuit_out)[k]
            IN  /\ got[1] = Rewritten(expected[k][1], source[1])
                /\ IsPrefix(source[2], got[2])
                /\ (source[2] = <<>>) = (got[2] = <<>>)

C3_Witness ==
    /\ Done /\ Chain(3)
    /\ NumOutputs(0) > NumInputs(1) /\ NumInputs(1) > 0
    /\ NumOutputs(1) > NumInputs(2) /\ NumInputs(2) > 0
    /\ NumOutputs(2) > 0

\* C4 as stated: concatenating the empty list ends with the empty circuit,
\* and no assertion fails on the way.
C4_EmptyListSucceeds ==
    (circuits = <<>> /\ pc # "start") =>
        /\ Done
        /\ circuit_out = EmptyCircuit
        /\ ~conc.panicked

\* C4, amended: concatenating the empty list fails the assertion of
\* Concatenator::new and gives no circuit; no other list fails it.
C4_EmptyListAsserted ==
    pc # "start" =>
        /\ conc.panicked = (circuits = <<>>)
        /\ circuits = <<>> => (pc = "panic" /\ circuit_out = NoCircuit)

C4_Witness == circuits = <<>> /\ pc = "panic" /\ conc.panicked

NamedOutputNames(circuit) ==
    {k \in 1..Len(named_outputs(circuit)) : named_outputs(circuit)[k][2] # <<>>}

DistinctOutputNames(circuit) ==
    \A j, k \in NamedOutputNames(circuit) :
        j # k => named_outputs(circuit)[j][2] # named_outputs(circuit)[k][2]

\* C5 as stated: a chain of one circuit gives back its inputs and its
\* outputs, every gate and every name as it was.
C5_Unchanged ==
    (Done /\ Chain(1)) =>
        /\ input_names(circuit_out) = input_names(circuits[1])
        /\ named_outputs(circuit_out) = named_outputs(circuits[1])

\* C5, amended: a chain of one circuit gives back its inputs and its output
\* gates in their order; an anonymous output stays anonymous; every output
\* keeps its name when the non-empty output names are pairwise distinct.
C5_UnchangedUpToRepeatedNames ==
    (Done /\ Chain(1)) =>
        /\ input_names(circuit_out) = input_names(circuits[1])
        /\ outputs(circuit_out) = outputs(circuits[1])
        /\ \A k \in 1..NumOutputs(0) :
            named_outputs(circuits[1])[k][2] = <<>>
                => named_outputs(circuit_out)[k][2] = <<>>
        /\ DistinctOutputNames(circuits[1])
            => named_outputs(circuit_out) = named_outputs(circuits[1])

C5_Witness ==
    /\ Done /\ Chain(1)
    /\ DistinctOutputNames(circuits[1])
    /\ Cardinality(NamedOutputNames(circuits[1])) >= 2
    /\ named_outputs(circuit_out) = named_outputs(circuits[1])

---------------------------------------------------------------------------
(***************************************************************************)
(* Properties of the NameAllocator scenario                                *)
(***************************************************************************)
Returned(k) == na_log[k][2]
HintOf(k) == na_log[k][1]

\* C6: in one scope the returned names are pairwise distinct, none is a
\* name the scope was constructed with, and every returned name is in
\* used_names from its return on.
C6_DistinctNames ==
    /\ \A j, k \in 1..Len(na_log) : j # k => Returned(j) # Returned(k)
    /\ \A k \in 1..Len(na_log) : Returned(k) \notin na_seed
    /\ \A k \in 1..Len(na_log) : Returned(k) \in na.used_names
    /\ na_seed \subseteq na.used_names

C6_Witness ==
    /\ Len(na_log) = MaxCalls
    /\ na_seed # {}
    /\ \E j, k \in 1..Len(na_log) : j < k /\ HintOf(j) = HintOf(k)
    /\ \E k \in 1..Len(na_log) : HintOf(k) \in na_seed /\ Returned(k) # HintOf(k)

\* The calls with hint h, in order.
CallsOf(h) == {k \in 1..Len(na_log) : HintOf(k) = h}
Earlier(h, k) == Cardinality({j \in CallsOf(h) : j < k})

\* h is neither a name of the construction nor returned before its first use
\* as a hint.
Fresh(h) ==
    /\ h \notin na_seed
    /\ \A k \in 1..Len(na_log) : (Returned(k) = h) => (\E j \in CallsOf(h) : j <= k)

InOrder(h) ==
    \A k \in CallsOf(h) :
        Returned(k) = IF Earlier(h, k) = 0 THEN h ELSE FormatName(h, Earlier(h, k))

\* C7 as stated: the calls with a fresh hint h return h, h_1, h_2, ... in
\* this order, whatever other hints are allocated in between.
C7_RepeatedHint == \A h \in Hints : Fresh(h) => InOrder(h)

\* No name of the construction and no other hint of the scope has h's stem.
StemAlone(h) ==
    /\ \A name \in na_seed : StemOf(name) # StemOf(h)
    /\ \A k \in 1..Len(na_log) : HintOf(k) # h => StemOf(HintOf(k)) # StemOf(h)

\* C7, amended: the calls with a fresh hint h return h, h_1, h_2, ... in
\* this order, also with allocations of other hints in between, provided
\* that no other hint and no name of the construction shares h's stem.
C7_RepeatedHintAloneInStem == \A h \in Hints : (Fresh(h) /\ StemAlone(h)) => InOrder(h)

C7_Witness ==
    \E h \in Hints :
        /\ Fresh(h) /\ StemAlone(h)
        /\ Cardinality(CallsOf(h)) >= 3
        /\ \E k \in 1..Len(na_log) :
            /\ HintOf(k) # h
            /\ \E j \in CallsOf(h) : j < k
            /\ \E j \in CallsOf(h) : j > k
        /\ \E k \in CallsOf(h) : Returned(k) = FormatName(h, 2)

---------------------------------------------------------------------------
\* The bitmap scenario: a table is validated, or a circuit is built from it.
EntryValues == 0..MaxSmallEntry \cup {Pow2(WordBits - 1), Pow2(WordBits) - 1}

InitBitmap ==
    /\ pc = "table"
    /\ table \in SeqsUpTo(EntryValues, MaxTableLen)
    /\ bm = [none |-> TRUE]
    /\ na = IdleAllocator /\ na_seed = {} /\ na_log = <<>>
    /\ circuits = <<>> /\ conc = NoConcatenator /\ pending = <<>> /\ result = <<>>
    /\ circuit_out = NoCircuit
    /\ IdleSynth

ValidateInputs ==
    /\ pc = "table"
    /\ bm' = validate_inputs(table)
    /\ pc' = "validated"
    /\ UNCHANGED <<table, naVars, concVars, synthVars>>

BuildBitmap ==
    /\ pc = "table"
    /\ bm' = build_bitmap(table)
    /\ pc' = "built"
    /\ UNCHANGED <<table, naVars, concVars, synthVars>>

NextBitmap == ValidateInputs \/ BuildBitmap

SpecBitmap == InitBitmap /\ [][NextBitmap]_vars

(***************************************************************************)
(* Properties of the bitmap scenario                                       *)
(***************************************************************************)
IsPowerOfTwo(n) == \E k \in 0..n : Pow2(k) = n
Log2Of(n) == CHOOSE k \in 0..n : Pow2(k) = n
Largest(s) == CHOOSE x \in Range(s) : \A y \in Range(s) : y <= x
\* The smallest b with 2^b > x
BitLength(x) == CHOOSE n \in 0..WordBits : Pow2(n) > x /\ \A m \in 0..(n - 1) : Pow2(m) <= x

\* The inputs set to the binary expansion of row r
RowAssignment(r, input_bits) ==
    [name \in {InputName(k) : k \in 0..(input_bits - 1)} |->
        BitSet(r, (CHOOSE k \in 0..(input_bits - 1) : InputName(k) = name))]

\* C8: a table of a power-of-two length is accepted, and for every row r
\* the circuit built, evaluated with input i_b set to bit b of r, gives bit
\* k of table[r] at every output k below the bit length of the largest
\* entry (false where no row has the bit; with one row, the bits of the
\* only entry).
C8_TableReproduced ==
    (pc = "built" /\ IsPowerOfTwo(Len(table))) =>
        /\ bm.ok
        /\ Len(named_outputs(bm.circuit)) = BitLength(Largest(table))
        /\ \A r \in 0..(Len(table) - 1) :
            \A k \in 0..(Len(named_outputs(bm.circuit)) - 1) :
                Eval(outputs(bm.circuit)[k + 1], RowAssignment(r, Log2Of(Len(table))))
                    = BitSet(table[r + 1], k)

C8_Witness ==
    /\ pc = "built" /\ Len(table) = 4 /\ bm.ok
    /\ Len(named_outputs(bm.circuit)) = WordBits
    /\ \E k \in 0..(WordBits - 1) : \A r \in 1..4 : ~BitSet(table[r], k)
    /\ \E r \in 1..4 : table[r] = 0
    /\ table[1] # 0

\* C9: validate_inputs gives (0, 0) for the empty table, the error naming
\* the length exactly for a non-empty table whose length is no power of
\* two, and else (log2 of the length, bit length of the largest entry),
\* which is 0 when all entries are 0, up to the largest entry of the width.
C9_ValidateInputs ==
    pc = "validated" =>
        IF table = <<>> THEN bm = [ok |-> TRUE, input_bits |-> 0, output_bits |-> 0]
        ELSE IF ~IsPowerOfTwo(Len(table)) THEN bm = [ok |-> FALSE, reported |-> Len(table)]
        ELSE bm = [ok |-> TRUE, input_bits |-> Log2Of(Len(table)),
                   output_bits |-> BitLength(Largest(table))]

C9_Witness ==
    /\ pc = "validated" /\ Len(table) = 4 /\ bm.ok
    /\ Largest(table) = Pow2(WordBits) - 1
    /\ bm.output_bits = WordBits /\ bm.input_bits = 2

\* C10: the circuit built from a table of length 2^k has exactly the k
\* inputs i0 .. i(k-1), whatever the entries are.
C10_InputsFromLength ==
    (pc = "built" /\ table # <<>> /\ IsPowerOfTwo(Len(table))) =>
        /\ bm.ok
        /\ Len(input_names(bm.circuit)) = Log2Of(Len(table))
        /\ Range(input_names(bm.circuit))
            = {InputName(k) : k \in 0..(Log2Of(Len(table)) - 1)}

---------------------------------------------------------------------------
(***************************************************************************)
(* Further properties of the concatenation scenario                        *)
(***************************************************************************)
\* The (circuit index, input name) pairs without a feeding output: the
\* input's position is no position of an output of the circuit before.
UnfedPairs ==
    UNION { { <<i, name>> : name \in
                { x \in Range(input_names(circuits[i + 1])) :
                    PositionOf(i, x) >= NumOutputs(i - 1) } } :
            i \in 1..(Len(circuits) - 1) }

Distinct(seq) == \A j, k \in 1..Len(seq) : seq[j] = seq[k] => j = k

\* C13: after run on a non-empty chain, new_input_name_sequence is the
\* input names of C_0 in their order, followed by exactly one newly
\* allocated name for each (circuit index i > 0, input name) pair whose
\* input position is >= outputs(C_(i-1)); the names of the sequence are
\* pairwise distinct, also when several circuits use the same input names.
C13_NewInputNames ==
    (Done /\ circuits # <<>>) =>
        /\ IsPrefix(input_names(circuits[1]), conc.new_input_name_sequence)
        /\ Len(NewInputs) = Cardinality(UnfedPairs)
        /\ \A pr \in UnfedPairs :
               /\ pr \in DOMAIN conc.input_name_substitutions
               /\ \E k \in 1..Len(NewInputs) :
                      conc.input_name_substitutions[pr] = Var(NewInputs[k])
        /\ \A p1, p2 \in UnfedPairs :
               conc.input_name_substitutions[p1] = conc.input_name_substitutions[p2]
                   => p1 = p2
        /\ Distinct(conc.new_input_name_sequence)

C13_Witness ==
    /\ Done /\ Chain(3)
    /\ \E p1, p2 \in UnfedPairs :
           /\ p1[1] # p2[1] /\ p1[2] = p2[2]
           /\ p1[2] \in Range(input_names(circuits[1]))
    /\ Len(NewInputs) = 2

\* Every insert into gate_substitutions so far was for a new key, the map
\* holds exactly the inserted keys, and no lookup of sub (nor any other
\* indexing of the run) has failed.
InsertedOnce ==
    (circuits # <<>>) =>
        /\ Distinct(conc.inserts)
        /\ Range(conc.inserts) = DOMAIN conc.gate_substitutions
        /\ ~conc.panicked

\* A step of the run keeps every entry of gate_substitutions as it is.
EntriesKept ==
    \A key \in DOMAIN conc.gate_substitutions :
        /\ key \in DOMAIN conc'.gate_substitutions
        /\ conc'.gate_substitutions[key] = conc.gate_substitutions[key]

\* C14: during a run each (circuit_index, gate) pair is inserted into
\* gate_substitutions at most once and its entry is never overwritten
\* afterwards, however many kept outputs or later circuits use the gate and
\* although map_gate and map_input call each other; and whenever sub looks
\* up an operand's pair, the entry is present.
C14_SubstitutedOnce == [](InsertedOnce) /\ [][EntriesKept]_vars

C14_Witness ==
    /\ Done /\ Chain(3)
    /\ \E i \in 0..1 : \E j, k \in 1..NumOutputs(i) :
           /\ j < k /\ k <= NumInputs(i + 1)
           /\ outputs(circuits[i + 1])[j] = outputs(circuits[i + 1])[k]
           /\ outputs(circuits[i + 1])[j][1] = "not"
           /\ <<i, outputs(circuits[i + 1])[j]>> \in Range(conc.inserts)
    /\ \E key \in Range(conc.inserts) : key[1] = 0 /\ key[2][1] \in {"and", "or", "xor"}

---------------------------------------------------------------------------
(***************************************************************************)
(* Permutation synthesizer                                                 *)
(***************************************************************************)
MaxPermLen == 4    \* tokens of a permutation

DigitValue(c) == (CHOOSE k \in 1..10 : Digits[k] = c) - 1

RECURSIVE DigitsValue(_)
DigitsValue(s) ==
    IF s = <<>> THEN 0
    ELSE 10 * DigitsValue(SubSeq(s, 1, Len(s) - 1)) + DigitValue(s[Len(s)])

\* str::parse::<u64>: an optional '+', then one or more digits
parse_u64(s) ==
    LET body == IF s # <<>> /\ s[1] = "+" THEN Tail(s) ELSE s IN
    IF body # <<>> /\ \A k \in 1..Len(body) : body[k] \in Range(Digits)
    THEN [ok |-> TRUE, value |-> DigitsValue(body)]
    ELSE [ok |-> FALSE]

permutation_index_plain(contains_zero, x) == x

\* The slot of a value: the value itself with a 0 among the values, else
\* the value less one.
permutation_index(contains_zero, x) == IF contains_zero THEN x ELSE x - 1

\* The try_fold of validate_permutation from value number k on; acc counts
\* the occurrences per slot.
RECURSIVE occurrence_fold(_, _, _, _)
occurrence_fold(values, contains_zero, acc, k) ==
    IF k > Len(values) THEN [ok |-> TRUE, acc |-> acc]
    ELSE LET x == values[k]
             index == permutation_index(contains_zero, x)
         IN  IF index >= Len(acc)
             THEN [ok |-> FALSE, error |-> "too large", value |-> x, items |-> Len(acc)]
             ELSE IF acc[index + 1] > 0
             THEN [ok |-> FALSE, error |-> "occurs more than once", value |-> x]
             ELSE occurrence_fold(values, contains_zero,
                                  [acc EXCEPT ![index + 1] = @ + 1], k + 1)

\* validate_permutation
validate_permutation(permutation) ==
    LET parses == [k \in 1..Len(permutation) |-> parse_u64(permutation[k])] IN
    IF \E k \in 1..Len(parses) : ~parses[k].ok
    THEN [ok |-> FALSE, error |-> "parse",
          token |-> permutation[CHOOSE k \in 1..Len(parses) :
                        ~parses[k].ok /\ \A j \in 1..(k - 1) : parses[j].ok]]
    ELSE LET values == [k \in 1..Len(parses) |-> parses[k].value]
             contains_zero == \E k \in 1..Len(values) : values[k] = 0
             folded == occurrence_fold(values, contains_zero,
                                       [k \in 1..Len(values) |-> 0], 1)
         IN  IF ~folded.ok THEN folded
             ELSE IF ~(\A k \in 1..Len(folded.acc) : folded.acc[k] >= 1)
             THEN [panicked |-> TRUE]
             ELSE [ok |-> TRUE,
                   values |-> [k \in 1..Len(values) |->
                                  IF contains_zero THEN values[k] ELSE values[k] - 1]]

\* build_permutation
build_permutation(permutation) ==
    LET v == validate_permutation(permutation) IN
    IF ~v.ok THEN v
    ELSE [ok |-> TRUE,
          circuit |-> from_unnamed_outputs(
                [k \in 1..Len(v.values) |-> Var(InputName(v.values[k]))])]

\* The tokens of the permutation scenario: the values 0..5, a value written
\* with a leading zero, and a token that is no number.
PermTokens ==
    {<<"0">>, <<"1">>, <<"2">>, <<"3">>, <<"4">>, <<"5">>, <<"0", "1">>, <<"x">>}

InitPermutation ==
    /\ pc = "tokens"
    /\ tokens \in SeqsUpTo(PermTokens, MaxPermLen)
    /\ pm = [none |-> TRUE]
    /\ rep = [none |-> TRUE]
    /\ na = IdleAllocator /\ na_seed = {} /\ na_log = <<>>
    /\ circuits = <<>> /\ conc = NoConcatenator /\ pending = <<>> /\ result = <<>>
    /\ circuit_out = NoCircuit
    /\ table = <<>> /\ bm = [none |-> TRUE]

ValidatePermutation ==
    /\ pc = "tokens"
    /\ pm' = validate_permutation(tokens)
    /\ pc' = "validated"
    /\ UNCHANGED <<tokens, rep, naVars, concVars, bmVars>>

BuildPermutation ==
    /\ pc = "tokens"
    /\ pm' = build_permutation(tokens)
    /\ pc' = "built"
    /\ UNCHANGED <<tokens, rep, naVars, concVars, bmVars>>

NextPermutation == ValidatePermutation \/ BuildPermutation

SpecPermutation == InitPermutation /\ [][NextPermutation]_vars

(***************************************************************************)
(* Properties of the permutation scenario                                  *)
(***************************************************************************)
AllParse == \A k \in 1..Len(tokens) : parse_u64(tokens[k]).ok
ValueOf(k) == parse_u64(tokens[k]).value
ZeroBased == \E k \in 1..Len(tokens) : ValueOf(k) = 0
Normalized(k) == IF ZeroBased THEN ValueOf(k) ELSE ValueOf(k) - 1
IsPermutation == {Normalized(k) : k \in 1..Len(tokens)} = 0..(Len(tokens) - 1)
Offending(k) ==
    \/ Normalized(k) >= Len(tokens)
    \/ \E j \in 1..(k - 1) : ValueOf(j) = ValueOf(k)
Leftmost == CHOOSE k \in 1..Len(tokens) : Offending(k) /\ \A j \in 1..(k - 1) : ~Offending(j)

\* C11: for tokens that all parse, validate_permutation succeeds exactly
\* when the values (0-based with a 0 among them, else 1-based) are a
\* permutation of 0..n-1 and then returns the 0-based values in order;
\* otherwise it returns the error of the leftmost offending token, "too
\* large" with the value as given and n when its slot is >= n, else "occurs
\* more than once" with the value as given; the assertion on the
\* occurrence counts never fails.
C11_ValidatePermutation ==
    (pc = "validated" /\ AllParse) =>
        IF IsPermutation
        THEN pm = [ok |-> TRUE, values |-> [k \in 1..Len(tokens) |-> Normalized(k)]]
        ELSE /\ \E k \in 1..Len(tokens) : Offending(k)
             /\ pm = IF Normalized(Leftmost) >= Len(tokens)
                     THEN [ok |-> FALSE, error |-> "too large",
                           value |-> ValueOf(Leftmost), items |-> Len(tokens)]
                     ELSE [ok |-> FALSE, error |-> "occurs more than once",
                           value |-> ValueOf(Leftmost)]

C11_Witness ==
    /\ pc = "validated" /\ AllParse /\ Len(tokens) = 4
    /\ ~ZeroBased
    /\ ~pm.ok /\ pm.error = "occurs more than once"
    /\ \E k \in 1..Len(tokens) : k > Leftmost /\ Normalized(k) >= Len(tokens)

C11_WitnessAccepted ==
    /\ pc = "validated" /\ AllParse /\ Len(tokens) = 3 /\ ~ZeroBased /\ pm.ok
    /\ pm.values = <<2, 0, 1>>

---------------------------------------------------------------------------
(***************************************************************************)
(* Replicator                                                              *)
(***************************************************************************)
MaxItems == 3          \* items of interleave_permutation
MaxRepetitions == 3    \* repetitions of a circuit

interleave_row_blocked(index, items, repetitions) ==
    [r \in 1..repetitions |-> index * repetitions + (r - 1)]

\* (0..repetitions).map(|repetition| index + repetition * items)
interleave_row(index, items, repetitions) ==
    [r \in 1..repetitions |-> index + (r - 1) * items]

\* (index..items).flat_map(...)
RECURSIVE interleave_from(_, _, _)
interleave_from(index, items, repetitions) ==
    IF index >= items THEN <<>>
    ELSE interleave_row(index, items, repetitions)
         \o interleave_from(index + 1, items, repetitions)

\* interleave_permutation: the indices, counted from zero
interleave_permutation(items, repetitions) == interleave_from(0, items, repetitions)

\* A gate with its variables renamed by a map from names to names
RECURSIVE rename_gate(_, _)
rename_gate(gate, names) ==
    CASE gate[1] = "var" -> Var(names[gate[2]])
      [] gate[1] = "const" -> gate
      [] gate[1] = "not" -> Not(rename_gate(gate[2], names))
      [] gate[1] = "and" -> And(rename_gate(gate[2], names), rename_gate(gate[3], names))
      [] gate[1] = "or" -> Or(rename_gate(gate[2], names), rename_gate(gate[3], names))
      [] gate[1] = "xor" -> Xor(rename_gate(gate[2], names), rename_gate(gate[3], names))

PositionIn(seq, x) == CHOOSE k \in 1..Len(seq) : seq[k] = x

\* One later copy of a circuit in a disjoint union: its outputs and then
\* its variables, in the order the outputs first use them, are named
\* v_counter, v_(counter+1), ...; the inputs keep their order.
renamed_copy(circuit, counter) ==
    LET n_out == Len(circuit.outputs)
        used == VariablesOf(outputs(circuit), <<>>)
        names == [x \in Range(used) |->
                     FormatName(<<"v">>, counter + n_out + PositionIn(used, x) - 1)]
    IN  Circuit([k \in 1..Len(circuit.inputs) |-> names[circuit.inputs[k]]],
                [k \in 1..n_out |->
                    <<rename_gate(circuit.outputs[k][1], names),
                      FormatName(<<"v">>, counter + k - 1)>>])

\* boolean_circuit's disjoint_union of the copies from number c on: the
\* first copy as it is, each later one renamed, inputs and outputs in copy
\* order.
RECURSIVE disjoint_union_from(_, _, _, _)
disjoint_union_from(copies, c, counter, acc) ==
    IF c > Len(copies) THEN acc
    ELSE LET copy == IF c = 1 THEN copies[c] ELSE renamed_copy(copies[c], counter)
             step == IF c = 1 THEN 0
                     ELSE Len(copies[c].outputs) + Len(copies[c].inputs)
         IN  disjoint_union_from(copies, c + 1, counter + step,
                 Circuit(acc.inputs \o copy.inputs, acc.outputs \o copy.outputs))

disjoint_union(copies) == disjoint_union_from(copies, 1, 1, EmptyCircuit)

\* repeat_parallel
repeat_parallel(circuit, repetitions) ==
    disjoint_union([c \in 1..repetitions |-> circuit])

\* Circuit::from_named_outputs: the inputs are the variables the gates use
from_named_outputs(outs) ==
    Circuit(VariablesOf([k \in 1..Len(outs) |-> outs[k][1]], <<>>), outs)

\* Circuit::with_input_order(..).unwrap(): the order has to name each input
\* of the circuit once
with_input_order(circuit, order) ==
    IF /\ Range(order) = Range(circuit.inputs)
       /\ \A j, k \in 1..Len(order) : order[j] = order[k] => j = k
    THEN Circuit(order, circuit.outputs)
    ELSE [panicked |-> TRUE]

\* repeat_interleaved; indexing outside the repeated circuit's lists panics
repeat_interleaved(circuit, repetitions) ==
    LET repeated_circuit == repeat_parallel(circuit, repetitions)
        outs == named_outputs(repeated_circuit)
        inputs == input_names(repeated_circuit)
        out_perm == interleave_permutation(Len(outputs(circuit)), repetitions)
        in_perm == interleave_permutation(Len(input_names(circuit)), repetitions)
    IN  IF \/ \E k \in 1..Len(out_perm) : out_perm[k] >= Len(outs)
           \/ \E k \in 1..Len(in_perm) : in_perm[k] >= Len(inputs)
        THEN [panicked |-> TRUE]
        ELSE with_input_order(
                 from_named_outputs([k \in 1..Len(out_perm) |-> outs[out_perm[k] + 1]]),
                 [k \in 1..Len(in_perm) |-> inputs[in_perm[k] + 1]])

o1 == <<"o", "1">>
o2 == <<"o", "2">>

\* The circuits that are repeated: those of the tests, one without inputs,
\* one with three inputs and the empty one.
RepeatPool ==
    { Circuit(<<b, a>>, << <<And(Var(a), Var(b)), o>> >>),
      Circuit(<<a, b>>, << <<Or(Var(a), Not(Var(b))), o1>>, <<And(Var(a), Var(b)), o2>> >>),
      Circuit(<<>>, << <<Const(TRUE), o>> >>),
      Circuit(<<cc, a, b>>, << <<Xor(Var(a), Var(b)), o>>, <<And(Var(b), Var(cc)), p>> >>),
      Circuit(<<a>>, << <<Var(a), o>>, <<Not(Var(a)), p>>, <<Var(a), o_1>> >>),
      EmptyCircuit }

InitRepeat ==
    /\ pc = "arguments"
    /\ \E circuit \in RepeatPool, repetitions \in 0..MaxRepetitions, items \in 0..MaxItems :
           rep = [circuit |-> circuit, repetitions |-> repetitions, items |-> items,
                  out |-> NoCircuit]
    /\ tokens = <<>> /\ pm = [none |-> TRUE]
    /\ na = IdleAllocator /\ na_seed = {} /\ na_log = <<>>
    /\ circuits = <<>> /\ conc = NoConcatenator /\ pending = <<>> /\ result = <<>>
    /\ circuit_out = NoCircuit
    /\ table = <<>> /\ bm = [none |-> TRUE]

InterleavePermutation ==
    /\ pc = "arguments"
    /\ rep' = [rep EXCEPT !.out = interleave_permutation(rep.items, rep.repetitions)]
    /\ pc' = "interleaved"
    /\ UNCHANGED <<tokens, pm, naVars, concVars, bmVars>>

RepeatParallel ==
    /\ pc = "arguments"
    /\ rep' = [rep EXCEPT !.out = repeat_parallel(rep.circuit, rep.repetitions)]
    /\ pc' = "parallel"
    /\ UNCHANGED <<tokens, pm, naVars, concVars, bmVars>>

RepeatInterleaved ==
    /\ pc = "arguments"
    /\ rep' = [rep EXCEPT !.out = repeat_interleaved(rep.circuit, rep.repetitions)]
    /\ pc' = "repeated"
    /\ UNCHANGED <<tokens, pm, naVars, concVars, bmVars>>

NextRepeat == InterleavePermutation \/ RepeatParallel \/ RepeatInterleaved

SpecRepeat == InitRepeat /\ [][NextRepeat]_vars

(***************************************************************************)
(* Properties of the replicator scenario                                   *)
(***************************************************************************)
\* The index the interleaved order has at position k (from zero) for
\* items slots per copy
InterleavedIndex(items, repetitions, k) == (k % repetitions) * items + (k \div repetitions)

\* list is source reordered by the interleaved order, every index in range
Interleaves(list, source, items, repetitions) ==
    /\ Len(list) = items * repetitions
    /\ \A k \in 0..(Len(list) - 1) :
           /\ InterleavedIndex(items, repetitions, k) < Len(source)
           /\ list[k + 1] = source[InterleavedIndex(items, repetitions, k) + 1]

\* C12: interleave_permutation(items, repetitions) has length
\* items*repetitions, its element at position v*repetitions + c is
\* c*items + v, so it is a permutation of 0..items*repetitions-1; and
\* repeat_interleaved(C, n) has at input position k the input of
\* repeat_parallel(C, n) at position interleave(inputs(C), n)[k] and at
\* output position k its output at position interleave(outputs(C), n)[k],
\* every index in range.
C12_Interleaved ==
    /\ pc = "interleaved" =>
           /\ Len(rep.out) = rep.items * rep.repetitions
           /\ \A v \in 0..(rep.items - 1), c \in 0..(rep.repetitions - 1) :
                  rep.out[v * rep.repetitions + c + 1] = c * rep.items + v
           /\ \A x \in 0..(rep.items * rep.repetitions - 1) :
                  \E k \in 1..Len(rep.out) : rep.out[k] = x
    /\ pc = "repeated" =>
           LET parallel == repeat_parallel(rep.circuit, rep.repetitions) IN
           /\ rep.out # [panicked |-> TRUE]
           /\ Interleaves(rep.out.inputs, parallel.inputs,
                          Len(rep.circuit.inputs), rep.repetitions)
           /\ Interleaves(rep.out.outputs, parallel.outputs,
                          Len(rep.circuit.outputs), rep.repetitions)

C12_Witness ==
    /\ pc = "repeated"
    /\ rep.repetitions = 3
    /\ Len(rep.circuit.inputs) = 3 /\ Len(rep.circuit.outputs) = 2
    /\ rep.out.inputs # repeat_parallel(rep.circuit, rep.repetitions).inputs
    /\ Len(rep.out.outputs) = 6

C12_WitnessPermutation ==
    /\ pc = "interleaved" /\ rep.items = 3 /\ rep.repetitions = 2
    /\ rep.out = <<0, 3, 1, 4, 2, 5>>

C12_WitnessTest ==
    /\ pc = "repeated" /\ rep.repetitions = 3
    /\ rep.out.inputs = <<a, <<"v", "_", "3">>, <<"v", "_", "7">>,
                          b, <<"v", "_", "4">>, <<"v", "_", "8">> >>
    /\ [k \in 1..6 |-> rep.out.outputs[k][2]] =
           <<o1, <<"v", "_", "1">>, <<"v", "_", "5">>, o2, <<"v", "_", "2">>, <<"v", "_", "6">> >>

C12_WitnessParallelTest ==
    /\ pc = "parallel" /\ rep.repetitions = 3
    /\ rep.out.inputs = <<b, a, <<"v", "_", "3">>, <<"v", "_", "2">>,
                          <<"v", "_", "6">>, <<"v", "_", "5">> >>
    /\ [k \in 1..3 |-> rep.out.outputs[k][2]] = <<o, <<"v", "_", "1">>, <<"v", "_", "4">> >>

====
